---- MODULE Spec2Model ----
(***************************************************************************)
(* Model of ash-bootstrap: DeviceBuilder (physical-device selection,      *)
(* feature negotiation, queue-role assignment) and SwapchainBuilder        *)
(* (format / present-mode / extent negotiation).                           *)
(*                                                                         *)
(* Conventions.  Option<T> is a sequence: None is <<>> and Some(x) is      *)
(* <<x>>.  Indices (physical devices, queue families) are the 0-based u32  *)
(* values of the source; element i of a Vec v is v[i + 1].  A u32 whose    *)
(* full range matters is a pair <<high 16 bits, low 16 bits>>.  Result<T>  *)
(* is a record with a status field.                                        *)
(***************************************************************************)
EXTENDS Integers, Sequences, FiniteSets, TLC

\* ---------------------------------------------------------------- bounds
NumFeatures == 2
MaxDevices == 2
MaxFamilies == 2
MaxPreferred == 2
MaxSupported == 2
MaxImageCount == 8
MaxSwapchains == 3

\* ------------------------------------------------------------- utilities
None == <<>>
Some(x) == <<x>>

Min(S) == CHOOSE x \in S : \A y \in S : x <= y

SeqsUpTo(S, n) == UNION {[1..k -> S] : k \in 0..n}

Elems(s) == {s[k] : k \in 1..Len(s)}

Half == 2^16 - 1

\* bitwise NOT of a u32 smaller than 2^16, as <<high half, low half>>
Not32(x) == <<Half, Half - x>>

IsZero32(p) == p = <<0, 0>>

\* a u32 as <<high half, low half>>
U32(n) == <<n \div (Half + 1), n % (Half + 1)>>

\* u32::MAX
U32Max == <<Half, Half>>

Lt32(a, b) == a[1] < b[1] \/ (a[1] = b[1] /\ a[2] < b[2])

\* Ord::clamp on u32 pairs; the caller checks min <= max, which clamp asserts
Clamp32(v, min, max) ==
    IF Lt32(v, min) THEN min ELSE IF Lt32(max, v) THEN max ELSE v

\* Ord::clamp on small integers
Clamp(v, min, max) == IF v < min THEN min ELSE IF v > max THEN max ELSE v

\* ------------------------------------------------------- driver's answers
Features == 1..NumFeatures
Bool32 == {0, 1}
FeatureSets == [Features -> Bool32]
NoFeatures == [f \in Features |-> 0]

Surfaces == {"surfaceA", "surfaceB"}
SwapchainExt == "VK_KHR_swapchain"
ExtensionNames == {SwapchainExt, "VK_EXT_private_data"}
QueueFlags == {"GRAPHICS", "COMPUTE", "TRANSFER"}
DeviceTypes == {"DISCRETE_GPU", "INTEGRATED_GPU", "CPU"}

\* C-string comparison of two extension names
streq(a, b) == a = b

\* ---------------------------------------------------------------- state
VARIABLES
    device_builder,     \* DeviceBuilder
    device_env,         \* what the driver answered during DeviceBuilder::build
    device,             \* Result<Arc<Device>, Error> of DeviceBuilder::build
    swapchain_builder,  \* SwapchainBuilder
    swapchain_env,      \* what the driver answered during SwapchainBuilder::build
    swapchain,          \* Result<Swapchain, Error> of SwapchainBuilder::build
    rebuilt,            \* Result<Swapchain, Error> of the last Swapchain::rebuild
    native,             \* the swapchains and image views created and not destroyed
    instance_builder,   \* InstanceBuilder
    instance_env,       \* what the loader and driver answered during InstanceBuilder::build
    instance,           \* Result<Arc<Instance>, Error> of InstanceBuilder::build
    released,           \* the Arc references ("instance", "device") their owner dropped
    swapchains,         \* the Swapchain values returned to the caller so far
    destroyed           \* the native destroy calls made so far, in order

device_vars == <<device_builder, device_env, device>>
swapchain_vars == <<swapchain_builder, swapchain_env, swapchain, rebuilt, native>>
instance_vars == <<instance_builder, instance_env, instance>>
lifetime_vars == <<released, swapchains, destroyed>>
vars == <<device_builder, device_env, device,
          swapchain_builder, swapchain_env, swapchain, rebuilt, native,
          instance_builder, instance_env, instance,
          released, swapchains, destroyed>>

\* DeviceBuilder::new
NewDeviceBuilder ==
    [required_features |-> None,
     optional_features |-> None,
     required_extensions |-> <<>>,
     optional_extensions |-> <<>>,
     surface |-> None,
     preferred_device |-> None,
     needs_graphics |-> TRUE]

NoEnv ==
    [enumerate_fails |-> FALSE,
     physical_devices |-> <<>>,
     build_ext_query_fails |-> FALSE,
     build_present_query_fails |-> {},
     create_device_fails |-> FALSE]

NotBuilt ==
    [status |-> "none",
     selection |-> [status |-> "none", physical_device |-> None],
     physical_device |-> None,
     enabled_features |-> NoFeatures,
     requested_extensions |-> <<>>,
     queue_create_infos |-> <<>>,
     device_created |-> FALSE,
     loaded_extensions |-> {},
     graphics_queue |-> None,
     compute_queue |-> None,
     present_queue |-> None,
     transfer_queue |-> None]

\* --------------------------------------------------- feature negotiation
\* check_required_feature!: TRUE when the macro takes its `return false`
CheckRequiredFeature(available, required, field) ==
    required[field] # 0 /\ IsZero32(Not32(available[field]))

has_required_features(available, required) ==
    ~ \E field \in Features : CheckRequiredFeature(available, required, field)

\* mutant: the requested flag is taken whether or not it is available
MaybeEnableFeature_Unchecked(available, optional, field) == optional[field]

\* maybe_enable_feature!
MaybeEnableFeature(available, optional, field) ==
    IF available[field] # 0 THEN optional[field] ELSE 0

enable_optional_features(available, optional) ==
    [field \in Features |-> MaybeEnableFeature(available, optional, field)]

\* ------------------------------------------------------ queue assignment
\* mutant: the graphics flag alone is tested
find_graphics_queue_GraphicsOnly(queue_families) ==
    LET hits == {i \in 1..Len(queue_families) :
                    "GRAPHICS" \in queue_families[i].flags}
    IN IF hits = {} THEN None ELSE Some(Min(hits) - 1)

find_graphics_queue(queue_families) ==
    LET hits == {i \in 1..Len(queue_families) :
                    {"GRAPHICS", "COMPUTE"} \subseteq queue_families[i].flags}
    IN IF hits = {} THEN None ELSE Some(Min(hits) - 1)

find_compute_queue(queue_families) ==
    LET hits == {i \in 1..Len(queue_families) :
                    /\ "COMPUTE" \in queue_families[i].flags
                    /\ "GRAPHICS" \notin queue_families[i].flags}
    IN IF hits = {} THEN None ELSE Some(Min(hits) - 1)

\* mutant: any transfer-capable family is taken
find_transfer_queue_AnyTransfer(queue_families) ==
    LET hits == {i \in 1..Len(queue_families) :
                    "TRANSFER" \in queue_families[i].flags}
    IN IF hits = {} THEN None ELSE Some(Min(hits) - 1)

find_transfer_queue(queue_families) ==
    LET hits == {i \in 1..Len(queue_families) :
                    /\ "TRANSFER" \in queue_families[i].flags
                    /\ queue_families[i].flags \cap {"GRAPHICS", "COMPUTE"} = {}}
    IN IF hits = {} THEN None ELSE Some(Min(hits) - 1)

\* find_present_queue: the loop stops at the first family whose query fails
\* (`?`) or reports support.  `fails` is the set of family indices whose
\* get_physical_device_surface_support call returns an error.
find_present_queue(queue_families, surf, fails) ==
    LET stops == {i \in 0..(Len(queue_families) - 1) :
                     i \in fails \/ surf \in queue_families[i + 1].present}
    IN IF stops = {} THEN [err |-> FALSE, value |-> None]
       ELSE IF Min(stops) \in fails THEN [err |-> TRUE, value |-> None]
       ELSE [err |-> FALSE, value |-> Some(Min(stops))]

\* ------------------------------------------------------ device selection
\* mutant: any supported extension counts as a match
ExtensionFound_AnyName(available_extensions, req) ==
    \E ext \in available_extensions : TRUE

ExtensionFound(available_extensions, req) ==
    \E ext \in available_extensions : streq(ext, req)

\* is_device_suitable: "true", "false", or "err" for Err(VulkanError)
is_device_suitable(b, pd) ==
    IF /\ b.required_features # None
       /\ ~has_required_features(pd.features, b.required_features[1])
    THEN "false"
    ELSE IF b.required_extensions # <<>> /\ pd.ext_query_fails
    THEN "err"
    ELSE IF /\ b.required_extensions # <<>>
            /\ \E req \in Elems(b.required_extensions) :
                   ~ExtensionFound(pd.extensions, req)
    THEN "false"
    ELSE IF b.needs_graphics /\ find_graphics_queue(pd.queue_families) = None
    THEN "false"
    ELSE IF b.surface # None
    THEN LET r == find_present_queue(pd.queue_families, b.surface[1],
                                     pd.present_query_fails)
         IN IF r.err THEN "err"
            ELSE IF r.value = None THEN "false" ELSE "true"
    ELSE "true"

\* One `for &pd in physical_devices` loop of select_physical_device over the
\* indices whose device-type test (if any) passed: returns at the first
\* candidate that is suitable or whose check fails.
ScanDevices(b, physical_devices, visited) ==
    LET stops == {i \in visited :
                     is_device_suitable(b, physical_devices[i + 1]) # "false"}
    IN IF stops = {} THEN [status |-> "continue", physical_device |-> None]
       ELSE IF is_device_suitable(b, physical_devices[Min(stops) + 1]) = "true"
       THEN [status |-> "Ok", physical_device |-> Some(Min(stops))]
       ELSE [status |-> "VulkanError", physical_device |-> None]

AllIndices(physical_devices) == 0..(Len(physical_devices) - 1)

\* the indices the preference branch looks at
PreferredIndices(preferred, physical_devices) ==
    IF preferred.kind = "Chosen"
    THEN {preferred.idx} \cap AllIndices(physical_devices)
    ELSE IF preferred.kind = "Discrete"
    THEN {i \in AllIndices(physical_devices) :
             physical_devices[i + 1].device_type = "DISCRETE_GPU"}
    ELSE {i \in AllIndices(physical_devices) :
             physical_devices[i + 1].device_type = "DISCRETE_GPU"}

select_physical_device(b, physical_devices) ==
    LET pref == IF b.preferred_device = None
                THEN [status |-> "continue", physical_device |-> None]
                ELSE ScanDevices(b, physical_devices,
                         PreferredIndices(b.preferred_device[1], physical_devices))
        all == ScanDevices(b, physical_devices, AllIndices(physical_devices))
    IN IF pref.status # "continue" THEN pref
       ELSE IF all.status # "continue" THEN all
       ELSE [status |-> "NoSuitableDevices", physical_device |-> None]

\* ------------------------------------------------------------------ build
\* mutant: the family is never found in the list
ContainsFamily_Never(queue_families, qf) == FALSE

\* queue_families.contains(&qf)
ContainsFamily(queue_families, qf) == qf \in Elems(queue_families)

RECURSIVE Dedup(_)
\* the `if !queue_families.contains(&qf) { push }` loop
Dedup(s) ==
    IF s = <<>> THEN <<>>
    ELSE LET front == Dedup(SubSeq(s, 1, Len(s) - 1))
             last == s[Len(s)]
         IN IF ContainsFamily(front, last) THEN front ELSE Append(front, last)

\* one request per family: a single queue of priority 1.0
DeviceQueueCreateInfo(qf) ==
    [queue_family_index |-> qf, queue_priorities |-> <<1>>]

GetDeviceQueue(qf, queue_index) ==
    [queue_family_index |-> qf, queue_index |-> queue_index]

\* Option::map(|qf| (qf, device.get_device_queue(qf, 0)))
WithQueue(role) ==
    IF role = None THEN None
    ELSE Some([index |-> role[1], queue |-> GetDeviceQueue(role[1], 0)])

Failed(status, selection) ==
    [NotBuilt EXCEPT !.status = status, !.selection = selection]

\* mutant: every optional extension is requested, supported or not
SupportedOptional_All(optional_extensions, available_extensions) ==
    optional_extensions

\* the nested loops over the optional extensions and the driver's list, in
\* DeviceBuilder::build and InstanceBuilder::build: the optional names that
\* the driver reports, in the order they were asked for
SupportedOptional(optional_extensions, available_extensions) ==
    LET supported(name) == ExtensionFound(available_extensions, name)
    IN SelectSeq(optional_extensions, supported)

\* mutant: every optional extension is loaded, requested or not
LoadedExtensions_AllOptional(optional, required, requested_extensions) ==
    Elems(optional) \cup Elems(required)

\* the two loops that fill loaded_extensions, in DeviceBuilder::build and in
\* InstanceBuilder::build: the optional extensions whose name is among the
\* requested names, and every required extension
LoadedExtensions(optional, required, requested_extensions) ==
    LET requested(name) == name \in Elems(requested_extensions)
    IN Elems(SelectSeq(optional, requested)) \cup Elems(required)

\* DeviceBuilder::build
build(b, env) ==
    IF env.enumerate_fails
    THEN Failed("VulkanError", NotBuilt.selection)
    ELSE
    LET selection == select_physical_device(b, env.physical_devices) IN
    IF selection.status # "Ok"
    THEN Failed(selection.status, selection)
    ELSE
    LET physical_device == selection.physical_device[1]
        pd == env.physical_devices[physical_device + 1]
        queried == IF b.required_features # None \/ b.optional_features # None
                   THEN pd.features ELSE NoFeatures
        after_required ==
            IF b.required_features # None
            THEN enable_optional_features(queried, b.required_features[1])
            ELSE queried
        enabled_features ==
            IF b.optional_features # None
            THEN enable_optional_features(after_required, b.optional_features[1])
            ELSE after_required
        requested_extensions ==
            SupportedOptional(b.optional_extensions, pd.extensions)
                \o b.required_extensions
        queue_families == pd.queue_families
        graphics_queue == find_graphics_queue(queue_families)
        dedicated_compute == find_compute_queue(queue_families)
        compute_queue == IF dedicated_compute # None THEN dedicated_compute
                         ELSE graphics_queue
        present_found ==
            IF b.surface = None THEN [err |-> FALSE, value |-> None]
            ELSE find_present_queue(queue_families, b.surface[1],
                                    env.build_present_query_fails)
        \* .unwrap_or_default(): an Err becomes None
        present_queue == IF present_found.err THEN None ELSE present_found.value
        transfer_queue == find_transfer_queue(queue_families)
        distinct_families ==
            Dedup(graphics_queue \o compute_queue \o present_queue \o transfer_queue)
        queue_create_infos ==
            [k \in 1..Len(distinct_families) |->
                DeviceQueueCreateInfo(distinct_families[k])]
    IN
    IF b.optional_extensions # <<>> /\ env.build_ext_query_fails
    THEN Failed("VulkanError", selection)
    ELSE IF env.create_device_fails
    THEN Failed("VulkanError", selection)
    ELSE
        [status |-> "Ok",
         selection |-> selection,
         physical_device |-> Some(physical_device),
         enabled_features |-> enabled_features,
         requested_extensions |-> requested_extensions,
         queue_create_infos |-> queue_create_infos,
         device_created |-> TRUE,
         loaded_extensions |->
             LoadedExtensions(b.optional_extensions, b.required_extensions,
                              requested_extensions),
         graphics_queue |-> WithQueue(graphics_queue),
         compute_queue |-> WithQueue(compute_queue),
         present_queue |-> WithQueue(present_queue),
         transfer_queue |-> WithQueue(transfer_queue)]

\* Device::extension::<E>(), E given by its name
Device_extension(dev, name) ==
    IF name \in dev.loaded_extensions THEN Some(name) ELSE None

\* ============================= InstanceBuilder ============================
SurfaceExt == "VK_KHR_surface"
Win32SurfaceExt == "VK_KHR_win32_surface"
XlibSurfaceExt == "VK_KHR_xlib_surface"
WaylandSurfaceExt == "VK_KHR_wayland_surface"
XcbSurfaceExt == "VK_KHR_xcb_surface"
DebugUtilsExt == "VK_EXT_debug_utils"

InstanceExtensionNames ==
    {SurfaceExt, Win32SurfaceExt, XlibSurfaceExt, WaylandSurfaceExt,
     XcbSurfaceExt, DebugUtilsExt}

\* InstanceBuilder::new
NewInstanceBuilder ==
    [required_extensions |-> <<>>,
     optional_extensions |-> <<>>,
     debug_messenger_fn |-> None,
     is_headless |-> FALSE]

\* InstanceBuilder::require_extension as a function of the builder
InstanceWithRequired(b, name) ==
    IF name \in Elems(b.required_extensions) THEN b
    ELSE [b EXCEPT !.required_extensions = Append(@, name)]

\* InstanceBuilder::optional_extension as a function of the builder
InstanceWithOptional(b, name) ==
    IF /\ name \notin Elems(b.required_extensions)
       /\ name \notin Elems(b.optional_extensions)
    THEN [b EXCEPT !.optional_extensions = Append(@, name)]
    ELSE b

\* require_surface_extensions, for the target_os the crate is compiled for
require_surface_extensions(b, target_os) ==
    LET with_surface == InstanceWithRequired(b, SurfaceExt)
    IN IF target_os = "windows"
       THEN InstanceWithRequired(with_surface, Win32SurfaceExt)
       ELSE InstanceWithOptional(
                InstanceWithOptional(
                    InstanceWithOptional(with_surface, XlibSurfaceExt),
                    WaylandSurfaceExt),
                XcbSurfaceExt)

NoInstanceEnv ==
    [target_os |-> "linux",
     extensions |-> {},
     fails |-> "none"]

NoInstance ==
    [status |-> "none",
     builder |-> NewInstanceBuilder,
     requested_extensions |-> <<>>,
     instance_created |-> FALSE,
     loaded_extensions |-> {}]

InstanceFailed(status, b) ==
    [NoInstance EXCEPT !.status = status, !.builder = b]

\* InstanceBuilder::build; `fails` names the call that reports an error, and
\* create_instance also fails when a requested extension is not present
InstanceBuilder_build(builder, env) ==
    LET b == IF ~builder.is_headless
             THEN require_surface_extensions(builder, env.target_os)
             ELSE builder
        requested_extensions ==
            SupportedOptional(b.optional_extensions, env.extensions)
                \o b.required_extensions
    IN
    IF env.fails = "load"
    THEN InstanceFailed("LoadingError", b)
    ELSE IF b.optional_extensions # <<>> /\ env.fails = "enumerate"
    THEN InstanceFailed("VulkanError", b)
    ELSE IF \/ env.fails = "create_instance"
            \/ ~(Elems(requested_extensions) \subseteq env.extensions)
    THEN InstanceFailed("VulkanError", b)
    ELSE
        [status |-> "Ok",
         builder |-> b,
         requested_extensions |-> requested_extensions,
         instance_created |-> TRUE,
         loaded_extensions |->
             LoadedExtensions(b.optional_extensions, b.required_extensions,
                              requested_extensions)]

\* Instance::extension::<E>(), E given by its name
Instance_extension(inst, name) ==
    IF name \in inst.loaded_extensions THEN Some(name) ELSE None

\* ============================ SwapchainBuilder ============================

SRGB(format) == [format |-> format, color_space |-> "SRGB_NONLINEAR"]

DEFAULT_PREFERRED_FORMATS ==
    <<SRGB("B8G8R8A8_SRGB"), SRGB("R8G8B8A8_SRGB"), SRGB("A8B8G8R8_SRGB_PACK32")>>

DEFAULT_PREFERRED_MODES == <<"FIFO_RELAXED", "FIFO", "MAILBOX", "IMMEDIATE">>

NullHandle == 0

\* SwapchainBuilder::new
NewSwapchainBuilder ==
    [preferred_formats |-> <<>>,
     preferred_modes |-> <<>>,
     extent |-> None,
     previous_swapchain |-> NullHandle,
     triple_buffered |-> FALSE,
     usage |-> {"COLOR_ATTACHMENT", "TRANSFER_DST"}]

Extent2D(width, height) == [width |-> U32(width), height |-> U32(height)]

UndefinedExtent == [width |-> U32Max, height |-> U32Max]

\* a Device as SwapchainBuilder::build reads it
GoodDevice ==
    [instance_extensions |-> {SurfaceExt},
     loaded_extensions |-> {SwapchainExt},
     graphics_queue |-> WithQueue(Some(0)),
     present_queue |-> WithQueue(Some(0))]

DefaultCapabilities ==
    [current_extent |-> Extent2D(800, 600),
     min_image_extent |-> Extent2D(1, 1),
     max_image_extent |-> Extent2D(4096, 4096),
     min_image_count |-> 2,
     max_image_count |-> 8,
     current_transform |-> "IDENTITY"]

DefaultSwapchainEnv ==
    [device |-> GoodDevice,
     surface |-> "surfaceA",
     capabilities |-> DefaultCapabilities,
     formats |-> <<SRGB("B8G8R8A8_SRGB")>>,
     modes |-> <<"FIFO">>,
     fails |-> "none",
     failed_view |-> 1,
     new_swapchain |-> 1]

NoCreateInfo ==
    [min_image_count |-> 0,
     image_format |-> "UNDEFINED",
     image_color_space |-> "SRGB_NONLINEAR",
     image_extent |-> Extent2D(0, 0),
     image_usage |-> {},
     old_swapchain |-> NullHandle,
     pre_transform |-> "IDENTITY",
     present_mode |-> "IMMEDIATE",
     surface |-> None,
     image_sharing_mode |-> "EXCLUSIVE",
     queue_family_indices |-> <<>>]

NoSwapchain ==
    [status |-> "none",
     swapchain |-> NullHandle,
     extent |-> Extent2D(0, 0),
     format |-> [format |-> "UNDEFINED", color_space |-> "SRGB_NONLINEAR"],
     mode |-> "IMMEDIATE",
     image_views |-> <<>>,
     create_info |-> NoCreateInfo,
     created_swapchain |-> None,
     created_image_views |-> <<>>]

\* the nested loops of pick_format and pick_mode: the first entry of
\* `preferred`, in order, that equals some supported entry
FirstSupported(preferred, supported) ==
    LET hits == {k \in 1..Len(preferred) :
                    \E j \in 1..Len(supported) : preferred[k] = supported[j]}
    IN IF hits = {} THEN None ELSE Some(preferred[Min(hits)])

\* the shared shape of pick_format and pick_mode
PickFirst(preferred, supported) ==
    IF FirstSupported(preferred, supported) # None
    THEN FirstSupported(preferred, supported)[1]
    ELSE supported[1]

\* `formats[0]` / `modes[0]` on an empty list: index out of bounds
PickFirstPanics(preferred, supported) ==
    FirstSupported(preferred, supported) = None /\ supported = <<>>

\* mutant: the loops are nested the other way round, the supported list outside
pick_format_SupportedOrder(b, formats) ==
    LET preferred == b.preferred_formats \o DEFAULT_PREFERRED_FORMATS
        hits == {j \in 1..Len(formats) :
                    \E k \in 1..Len(preferred) : preferred[k] = formats[j]}
    IN IF hits = {} THEN formats[1] ELSE formats[Min(hits)]

pick_format(b, formats) ==
    PickFirst(b.preferred_formats \o DEFAULT_PREFERRED_FORMATS, formats)

\* mutant: the defaults are chained before the caller's preferences
pick_mode_DefaultsFirst(b, modes) ==
    PickFirst(DEFAULT_PREFERRED_MODES \o b.preferred_modes, modes)

pick_mode(b, modes) ==
    PickFirst(b.preferred_modes \o DEFAULT_PREFERRED_MODES, modes)

\* mutant: the requested extent is clamped even when the current extent is defined
pick_extent_AlwaysClamp(b, capabilities) ==
    LET requested == IF b.extent = None THEN Extent2D(800, 600) ELSE b.extent[1]
    IN [width |-> Clamp32(requested.width,
                          capabilities.min_image_extent.width,
                          capabilities.max_image_extent.width),
        height |-> Clamp32(requested.height,
                           capabilities.min_image_extent.height,
                           capabilities.max_image_extent.height)]

pick_extent(b, capabilities) ==
    IF /\ capabilities.current_extent.width # U32Max
       /\ capabilities.current_extent.height # U32Max
    THEN capabilities.current_extent
    ELSE LET requested == IF b.extent = None THEN Extent2D(800, 600)
                          ELSE b.extent[1]
         IN [width |-> Clamp32(requested.width,
                               capabilities.min_image_extent.width,
                               capabilities.max_image_extent.width),
             height |-> Clamp32(requested.height,
                                capabilities.min_image_extent.height,
                                capabilities.max_image_extent.height)]

\* clamp asserts min <= max
PickExtentPanics(b, capabilities) ==
    /\ ~ (/\ capabilities.current_extent.width # U32Max
          /\ capabilities.current_extent.height # U32Max)
    /\ \/ Lt32(capabilities.max_image_extent.width,
               capabilities.min_image_extent.width)
       \/ Lt32(capabilities.max_image_extent.height,
               capabilities.min_image_extent.height)

\* mutant: the triple-buffering flag is ignored
pick_image_count_DoubleBuffered(b, capabilities) ==
    Clamp(2, capabilities.min_image_count, capabilities.max_image_count)

pick_image_count(b, capabilities) ==
    Clamp(IF b.triple_buffered THEN 3 ELSE 2,
          capabilities.min_image_count, capabilities.max_image_count)

\* clamp asserts min <= max
PickImageCountPanics(b, capabilities) ==
    capabilities.min_image_count > capabilities.max_image_count

\* mutant: the two indices are always passed, whatever they are
SharingMode_AlwaysConcurrent(queue_families) ==
    [image_sharing_mode |-> "CONCURRENT", queue_family_indices |-> queue_families]

\* the `if queue_families[0] == queue_families[1]` of SwapchainBuilder::build
SharingMode(queue_families) ==
    IF queue_families[1] = queue_families[2]
    THEN [image_sharing_mode |-> "EXCLUSIVE", queue_family_indices |-> <<>>]
    ELSE [image_sharing_mode |-> "CONCURRENT", queue_family_indices |-> queue_families]

SwapchainFailed(status, created_swapchain, created_image_views) ==
    [NoSwapchain EXCEPT !.status = status,
                        !.created_swapchain = created_swapchain,
                        !.created_image_views = created_image_views]

\* SwapchainBuilder::build(&self, device, surface)
SwapchainBuilder_build(b, env) ==
    LET dev == env.device
        capabilities == env.capabilities
    IN
    IF SurfaceExt \notin dev.instance_extensions
        \/ SwapchainExt \notin dev.loaded_extensions
    THEN SwapchainFailed("panic", None, <<>>)
    ELSE IF env.fails \in {"capabilities", "formats", "modes"}
    THEN SwapchainFailed("VulkanError", None, <<>>)
    ELSE IF \/ PickFirstPanics(b.preferred_formats \o DEFAULT_PREFERRED_FORMATS,
                               env.formats)
            \/ PickFirstPanics(b.preferred_modes \o DEFAULT_PREFERRED_MODES,
                               env.modes)
            \/ PickExtentPanics(b, capabilities)
            \/ PickImageCountPanics(b, capabilities)
    THEN SwapchainFailed("panic", None, <<>>)
    ELSE IF dev.graphics_queue = None \/ dev.present_queue = None
    THEN SwapchainFailed("panic", None, <<>>)
    ELSE
    LET format == pick_format(b, env.formats)
        mode == pick_mode(b, env.modes)
        extent == pick_extent(b, capabilities)
        image_count == pick_image_count(b, capabilities)
        queue_families == <<dev.graphics_queue[1].index, dev.present_queue[1].index>>
        sharing == SharingMode(queue_families)
        create_info ==
            [min_image_count |-> image_count,
             image_format |-> format.format,
             image_color_space |-> format.color_space,
             image_extent |-> extent,
             image_usage |-> b.usage,
             old_swapchain |-> b.previous_swapchain,
             pre_transform |-> capabilities.current_transform,
             present_mode |-> mode,
             surface |-> Some(env.surface),
             image_sharing_mode |-> sharing.image_sharing_mode,
             queue_family_indices |-> sharing.queue_family_indices]
        handle == env.new_swapchain
        views == [k \in 1..image_count |-> [swapchain |-> handle, image |-> k]]
    IN
    IF env.fails = "create_swapchain"
    THEN SwapchainFailed("VulkanError", None, <<>>)
    ELSE IF env.fails = "get_swapchain_images"
    THEN SwapchainFailed("VulkanError", Some(handle), <<>>)
    ELSE IF env.fails = "create_image_view" /\ env.failed_view <= image_count
    THEN SwapchainFailed("VulkanError", Some(handle),
                         SubSeq(views, 1, env.failed_view - 1))
    ELSE
        [status |-> "Ok",
         swapchain |-> handle,
         extent |-> extent,
         format |-> format,
         mode |-> mode,
         image_views |-> views,
         create_info |-> create_info,
         created_swapchain |-> Some(handle),
         created_image_views |-> views]

\* ---------------------------------------------------------------- actions
Configuring == device.status = "none"

require_features(features) ==
    /\ Configuring
    /\ device_builder' = [device_builder EXCEPT !.required_features = Some(features)]
    /\ UNCHANGED <<device_env, device>>
    /\ UNCHANGED swapchain_vars
    /\ UNCHANGED instance_vars
    /\ UNCHANGED lifetime_vars

optional_features(features) ==
    /\ Configuring
    /\ device_builder' = [device_builder EXCEPT !.optional_features = Some(features)]
    /\ UNCHANGED <<device_env, device>>
    /\ UNCHANGED swapchain_vars
    /\ UNCHANGED instance_vars
    /\ UNCHANGED lifetime_vars

\* DeviceBuilder::require_extension as a function of the builder
WithRequiredExtension(b, name) ==
    IF name \in Elems(b.required_extensions) THEN b
    ELSE [b EXCEPT !.required_extensions = Append(@, name)]

require_extension(name) ==
    /\ Configuring
    /\ device_builder' = WithRequiredExtension(device_builder, name)
    /\ UNCHANGED <<device_env, device>>
    /\ UNCHANGED swapchain_vars
    /\ UNCHANGED instance_vars
    /\ UNCHANGED lifetime_vars

optional_extension(name) ==
    /\ Configuring
    /\ device_builder' =
          IF /\ name \notin Elems(device_builder.required_extensions)
             /\ name \notin Elems(device_builder.optional_extensions)
          THEN [device_builder EXCEPT !.optional_extensions = Append(@, name)]
          ELSE device_builder
    /\ UNCHANGED <<device_env, device>>
    /\ UNCHANGED swapchain_vars
    /\ UNCHANGED instance_vars
    /\ UNCHANGED lifetime_vars

surface(surf) ==
    /\ Configuring
    /\ device_builder' =
          WithRequiredExtension([device_builder EXCEPT !.surface = Some(surf)],
                                SwapchainExt)
    /\ UNCHANGED <<device_env, device>>
    /\ UNCHANGED swapchain_vars
    /\ UNCHANGED instance_vars
    /\ UNCHANGED lifetime_vars

graphics_optional ==
    /\ Configuring
    /\ device_builder' = [device_builder EXCEPT !.needs_graphics = FALSE]
    /\ UNCHANGED <<device_env, device>>
    /\ UNCHANGED swapchain_vars
    /\ UNCHANGED instance_vars
    /\ UNCHANGED lifetime_vars

Build(env) ==
    /\ Configuring
    /\ device' = build(device_builder, env)
    /\ device_env' = env
    /\ UNCHANGED device_builder
    /\ UNCHANGED swapchain_vars
    /\ UNCHANGED instance_vars
    /\ UNCHANGED lifetime_vars

\* The builder calls of a behaviour come before its build.
SwapchainConfiguring == swapchain.status = "none"

prefer_format(format) ==
    /\ SwapchainConfiguring
    /\ Len(swapchain_builder.preferred_formats) < MaxPreferred
    /\ swapchain_builder' =
          [swapchain_builder EXCEPT !.preferred_formats = Append(@, format)]
    /\ UNCHANGED <<swapchain_env, swapchain, rebuilt, native>>
    /\ UNCHANGED device_vars
    /\ UNCHANGED instance_vars
    /\ UNCHANGED lifetime_vars

prefer_mode(mode) ==
    /\ SwapchainConfiguring
    /\ Len(swapchain_builder.preferred_modes) < MaxPreferred
    /\ swapchain_builder' =
          [swapchain_builder EXCEPT !.preferred_modes = Append(@, mode)]
    /\ UNCHANGED <<swapchain_env, swapchain, rebuilt, native>>
    /\ UNCHANGED device_vars
    /\ UNCHANGED instance_vars
    /\ UNCHANGED lifetime_vars

extent(width, height) ==
    /\ SwapchainConfiguring
    /\ swapchain_builder' =
          [swapchain_builder EXCEPT !.extent = Some(Extent2D(width, height))]
    /\ UNCHANGED <<swapchain_env, swapchain, rebuilt, native>>
    /\ UNCHANGED device_vars
    /\ UNCHANGED instance_vars
    /\ UNCHANGED lifetime_vars

triple_buffered ==
    /\ SwapchainConfiguring
    /\ swapchain_builder' = [swapchain_builder EXCEPT !.triple_buffered = TRUE]
    /\ UNCHANGED <<swapchain_env, swapchain, rebuilt, native>>
    /\ UNCHANGED device_vars
    /\ UNCHANGED instance_vars
    /\ UNCHANGED lifetime_vars

\* mutant: the hint is left as the caller configured it
WithPreviousSwapchain_Ignored(b, previous) == b

\* SwapchainBuilder::previous_swapchain as a function of the builder
WithPreviousSwapchain(b, previous) == [b EXCEPT !.previous_swapchain = previous]

previous_swapchain(previous) ==
    /\ SwapchainConfiguring
    /\ swapchain_builder' = WithPreviousSwapchain(swapchain_builder, previous)
    /\ UNCHANGED <<swapchain_env, swapchain, rebuilt, native>>
    /\ UNCHANGED device_vars
    /\ UNCHANGED instance_vars
    /\ UNCHANGED lifetime_vars

NoNative == [swapchains |-> {}, image_views |-> {}]

\* the native objects after a build: what it created is never destroyed by it
AfterBuild(objects, result) ==
    [swapchains |-> objects.swapchains \cup Elems(result.created_swapchain),
     image_views |-> objects.image_views \cup Elems(result.created_image_views)]

\* a native destroy call: destroy_image_view, destroy_swapchain,
\* destroy_device or destroy_instance
Destroy(kind, handle, image) ==
    [kind |-> kind, swapchain |-> handle, image |-> image]

DestroyedHandles ==
    {destroyed[k].swapchain : k \in {j \in 1..Len(destroyed) :
                                        destroyed[j].kind = "swapchain"}}

\* create_swapchain returns a handle that no other swapchain has or had
FreshHandle(env) ==
    env.new_swapchain \notin native.swapchains \cup DestroyedHandles

\* the Swapchain values the caller holds after a build: an Ok result is a new
\* value that owns its handle, its image views and an Arc<Device>
WithSwapchainValue(values, result) ==
    IF result.status = "Ok"
    THEN values \cup {[swapchain |-> result.swapchain,
                       image_views |-> result.image_views,
                       dropped |-> FALSE]}
    ELSE values

BuildSwapchain(env) ==
    /\ SwapchainConfiguring
    /\ FreshHandle(env)
    /\ swapchain' = SwapchainBuilder_build(swapchain_builder, env)
    /\ swapchain_env' = env
    /\ native' = AfterBuild(native, swapchain')
    /\ swapchains' = WithSwapchainValue(swapchains, swapchain')
    /\ UNCHANGED <<swapchain_builder, rebuilt>>
    /\ UNCHANGED <<released, destroyed>>
    /\ UNCHANGED device_vars
    /\ UNCHANGED instance_vars

NotRebuilt == [status |-> "none", swapchain |-> NoSwapchain]

\* mutant: self is overwritten with whatever the build returned
Replaced_Always(self, new_swapchain) == new_swapchain

\* `let new_swapchain = ...build(..)?; std::mem::replace(self, new_swapchain)`:
\* self after rebuild, replaced only when the build returned Ok
Replaced(self, new_swapchain) ==
    IF new_swapchain.status = "Ok" THEN new_swapchain ELSE self

\* Swapchain::rebuild(&mut self, surface) on the Swapchain that build
\* returned; self.builder is the builder it was built from and self.device
\* the device of that build.
Rebuild(env) ==
    /\ swapchain.status = "Ok"
    /\ FreshHandle(env)
    /\ env.device = swapchain_env.device
    /\ LET builder == WithPreviousSwapchain(swapchain_builder, swapchain.swapchain)
           new_swapchain == SwapchainBuilder_build(builder, env)
       IN /\ swapchain_builder' = builder
          /\ swapchain_env' = env
          /\ native' = AfterBuild(native, new_swapchain)
          /\ swapchains' = WithSwapchainValue(swapchains, new_swapchain)
          /\ swapchain' = Replaced(swapchain, new_swapchain)
          /\ rebuilt' = IF new_swapchain.status = "Ok"
                        THEN [status |-> "Ok", swapchain |-> swapchain]
                        ELSE [status |-> new_swapchain.status,
                              swapchain |-> NoSwapchain]
    /\ UNCHANGED <<released, destroyed>>
    /\ UNCHANGED device_vars
    /\ UNCHANGED instance_vars

\* ------------------------------------------------------------------ drops
RECURSIVE ImageViewDestroys(_)
\* `for view in &self.image_views { destroy_image_view(*view) }`
ImageViewDestroys(image_views) ==
    IF image_views = <<>> THEN <<>>
    ELSE <<Destroy("image_view", image_views[1].swapchain, image_views[1].image)>>
             \o ImageViewDestroys(Tail(image_views))

\* mutant: the swapchain is destroyed before its image views
SwapchainDestroys_HandleFirst(sc) ==
    <<Destroy("swapchain", sc.swapchain, 0)>> \o ImageViewDestroys(sc.image_views)

\* Drop for Swapchain: the image views in order, then the swapchain
SwapchainDestroys(sc) ==
    ImageViewDestroys(sc.image_views) \o <<Destroy("swapchain", sc.swapchain, 0)>>

DeviceDestroyed(log) == \E k \in 1..Len(log) : log[k].kind = "device"

InstanceDestroyed(log) == \E k \in 1..Len(log) : log[k].kind = "instance"

\* mutant: the references held by Swapchain values are not counted
DeviceUnreferenced_CallerOnly(refs, values) == "device" \in refs

\* the strong count of the Arc<Device> is zero: the caller dropped its
\* reference and every Swapchain value, each holding a clone, was dropped
DeviceUnreferenced(refs, values) ==
    "device" \in refs /\ \A sc \in values : sc.dropped

\* the strong count of the Arc<Instance> is zero: the caller dropped its
\* reference and the Device holding a clone was dropped
InstanceUnreferenced(refs, log) ==
    "instance" \in refs /\ (device.status = "Ok" => DeviceDestroyed(log))

\* the drops that follow when a reference count reaches zero: Drop for
\* Device, then the release of its Arc<Instance> and Drop for Instance
Cascade(refs, values, log) ==
    LET after_device ==
            IF /\ device.status = "Ok"
               /\ ~DeviceDestroyed(log)
               /\ DeviceUnreferenced(refs, values)
            THEN Append(log, Destroy("device", 0, 0))
            ELSE log
    IN IF /\ instance.status = "Ok"
          /\ ~InstanceDestroyed(after_device)
          /\ InstanceUnreferenced(refs, after_device)
       THEN Append(after_device, Destroy("instance", 0, 0))
       ELSE after_device

\* the caller drops a Swapchain value it holds
DropSwapchain(sc) ==
    /\ sc \in swapchains
    /\ ~sc.dropped
    /\ swapchains' = (swapchains \ {sc}) \cup {[sc EXCEPT !.dropped = TRUE]}
    /\ destroyed' = Cascade(released, swapchains', destroyed \o SwapchainDestroys(sc))
    /\ native' = [swapchains |-> native.swapchains \ {sc.swapchain},
                  image_views |-> native.image_views \ Elems(sc.image_views)]
    /\ swapchain' = IF swapchain.status = "Ok" /\ swapchain.swapchain = sc.swapchain
                    THEN [swapchain EXCEPT !.status = "dropped"]
                    ELSE swapchain
    /\ UNCHANGED <<swapchain_builder, swapchain_env, rebuilt, released>>
    /\ UNCHANGED device_vars
    /\ UNCHANGED instance_vars

\* the caller drops its Arc<Device>
DropDevice ==
    /\ device.status = "Ok"
    /\ "device" \notin released
    /\ released' = released \cup {"device"}
    /\ destroyed' = Cascade(released', swapchains, destroyed)
    /\ UNCHANGED swapchains
    /\ UNCHANGED <<device_vars, swapchain_vars, instance_vars>>

\* the caller drops its Arc<Instance>
DropInstance ==
    /\ instance.status = "Ok"
    /\ "instance" \notin released
    /\ released' = released \cup {"instance"}
    /\ destroyed' = Cascade(released', swapchains, destroyed)
    /\ UNCHANGED swapchains
    /\ UNCHANGED <<device_vars, swapchain_vars, instance_vars>>

InitLifetime ==
    /\ released = {}
    /\ swapchains = {}
    /\ destroyed = <<>>

\* InstanceBuilder::build(self) consumes the builder
InstanceConfiguring == instance.status = "none"

InstanceBuilder_require_extension(name) ==
    /\ InstanceConfiguring
    /\ instance_builder' = InstanceWithRequired(instance_builder, name)
    /\ UNCHANGED <<instance_env, instance>>
    /\ UNCHANGED <<device_vars, swapchain_vars>>
    /\ UNCHANGED lifetime_vars

InstanceBuilder_optional_extension(name) ==
    /\ InstanceConfiguring
    /\ instance_builder' = InstanceWithOptional(instance_builder, name)
    /\ UNCHANGED <<instance_env, instance>>
    /\ UNCHANGED <<device_vars, swapchain_vars>>
    /\ UNCHANGED lifetime_vars

headless ==
    /\ InstanceConfiguring
    /\ instance_builder' = [instance_builder EXCEPT !.is_headless = TRUE]
    /\ UNCHANGED <<instance_env, instance>>
    /\ UNCHANGED <<device_vars, swapchain_vars>>
    /\ UNCHANGED lifetime_vars

use_default_debug_messenger ==
    /\ InstanceConfiguring
    /\ instance_builder' =
          InstanceWithRequired(
              [instance_builder EXCEPT
                  !.debug_messenger_fn = Some("default_debug_message_func")],
              DebugUtilsExt)
    /\ UNCHANGED <<instance_env, instance>>
    /\ UNCHANGED <<device_vars, swapchain_vars>>
    /\ UNCHANGED lifetime_vars

BuildInstance(env) ==
    /\ InstanceConfiguring
    /\ instance' = InstanceBuilder_build(instance_builder, env)
    /\ instance_env' = env
    /\ UNCHANGED instance_builder
    /\ UNCHANGED <<device_vars, swapchain_vars>>
    /\ UNCHANGED lifetime_vars

InitInstance ==
    /\ instance_builder = NewInstanceBuilder
    /\ instance_env = NoInstanceEnv
    /\ instance = NoInstance

InitSwapchain ==
    /\ swapchain_builder = NewSwapchainBuilder
    /\ swapchain_env = DefaultSwapchainEnv
    /\ swapchain = NoSwapchain
    /\ rebuilt = NotRebuilt
    /\ native = NoNative

InitDevice ==
    /\ device_builder = NewDeviceBuilder
    /\ device_env = NoEnv
    /\ device = NotBuilt

Init == InitDevice /\ InitSwapchain /\ InitInstance /\ InitLifetime

\* ----------------------------------------------- the driver's candidates
FullFamily == [flags |-> QueueFlags, present |-> Surfaces]

\* a physical device as the driver describes it
PhysicalDevice(device_type, features, extensions, queue_families) ==
    [device_type |-> device_type,
     features |-> features,
     extensions |-> extensions,
     ext_query_fails |-> FALSE,
     queue_families |-> queue_families,
     present_query_fails |-> {}]

EnvOf(physical_devices) == [NoEnv EXCEPT !.physical_devices = physical_devices]

\* ===================== feature negotiation: SpecFeatures ==================
\* Candidates that differ in their available features only.
FeatureDevices ==
    {PhysicalDevice("DISCRETE_GPU", a, ExtensionNames, <<FullFamily>>) :
        a \in FeatureSets}

FeatureEnvs == {EnvOf(pds) : pds \in SeqsUpTo(FeatureDevices, MaxDevices)}

NextFeatures ==
    \/ \E features \in FeatureSets : require_features(features)
    \/ \E features \in FeatureSets : optional_features(features)
    \/ \E env \in FeatureEnvs : Build(env)

SpecFeatures == Init /\ [][NextFeatures]_vars

\* the overlay a builder field stands for: a set not given counts as empty
Overlay(opt) == IF opt = None THEN NoFeatures ELSE opt[1]

\* some flag of `required` is not set in `available`
MissesRequired(required, available) ==
    \E f \in Features : Overlay(required)[f] # 0 /\ available[f] = 0

Candidates == device_env.physical_devices

\* C1: a candidate whose available features lack a required flag is rejected
\* by is_device_suitable, whatever the optional set is, and is never the
\* device that build selects.
C1_RequiredFeatureRejects ==
    device.status # "none" =>
        \A i \in AllIndices(Candidates) :
            MissesRequired(device_builder.required_features,
                           Candidates[i + 1].features)
            => /\ is_device_suitable(device_builder, Candidates[i + 1]) = "false"
               /\ device.physical_device # Some(i)

\* C2: per flag, the features passed to create_device are
\* available AND (required OR optional).
C2_EnabledFeatures ==
    device.status = "Ok" =>
        LET A == Candidates[device.physical_device[1] + 1].features
            R == Overlay(device_builder.required_features)
            O == Overlay(device_builder.optional_features)
        IN \A f \in Features :
              (device.enabled_features[f] # 0)
                  <=> (A[f] # 0 /\ (R[f] # 0 \/ O[f] # 0))

\* C27: the features passed to create_device enable no flag that the
\* selected device does not report as available, and when neither a required
\* nor an optional feature set was given no flag is enabled.
C27_EnabledAvailable ==
    device.status = "Ok" =>
        LET A == Candidates[device.physical_device[1] + 1].features
        IN /\ \A f \in Features :
                 device.enabled_features[f] # 0 => A[f] # 0
           /\ (device_builder.required_features = None
                  /\ device_builder.optional_features = None)
              => device.enabled_features = NoFeatures

\* every flag was requested as optional from a device that has some flags
\* and lacks others: the ones it has are enabled, the ones it lacks are not
C27_Witness ==
    /\ device.status = "Ok"
    /\ device_builder.required_features = None
    /\ device_builder.optional_features # None
    /\ \A f \in Features : device_builder.optional_features[1][f] # 0
    /\ LET A == Candidates[device.physical_device[1] + 1].features
       IN \E f, g \in Features :
             /\ A[f] = 0 /\ device.enabled_features[f] = 0
             /\ A[g] # 0 /\ device.enabled_features[g] # 0

\* ======================= queue predicates: SpecQueues =====================
\* One candidate with every feature and extension, whose queue-family table
\* and present support vary.
QueueFamilies ==
    [flags : {{}, {"GRAPHICS"}, {"COMPUTE"}, {"TRANSFER"},
              {"GRAPHICS", "COMPUTE"}, {"COMPUTE", "TRANSFER"}, QueueFlags},
     present : {{}, {"surfaceA"}}]

QueueFailures == {{}} \cup {{i} : i \in 0..(MaxFamilies - 1)}

QueueDevices ==
    {[PhysicalDevice("DISCRETE_GPU", NoFeatures, ExtensionNames, qfs)
         EXCEPT !.present_query_fails = fails] :
        qfs \in SeqsUpTo(QueueFamilies, MaxFamilies), fails \in {{}, {0}}}

QueueEnvs == {EnvOf(<<pd>>) : pd \in QueueDevices}

NextQueues ==
    \/ graphics_optional
    \/ \E surf \in Surfaces : surface(surf)
    \/ \E env \in QueueEnvs : Build(env)

SpecQueues == Init /\ [][NextQueues]_vars

\* the feature and extension predicates of the specification
PassesFeatures(b, pd) == ~MissesRequired(b.required_features, pd.features)

PassesExtensions(b, pd) == Elems(b.required_extensions) \subseteq pd.extensions

GraphicsCapable(qf) == "GRAPHICS" \in qf.flags

GraphicsAndComputeCapable(qf) == {"GRAPHICS", "COMPUTE"} \subseteq qf.flags

HasFamily(pd, Test(_)) ==
    \E i \in 1..Len(pd.queue_families) : Test(pd.queue_families[i])

CanPresent(b, pd) ==
    \E i \in 1..Len(pd.queue_families) :
        b.surface[1] \in pd.queue_families[i].present

\* C7 as claimed: a candidate passing the feature and extension predicates
\* is suitable exactly when (graphics is optional or some family is
\* graphics-capable) and (no surface or some family can present to it).
C7_QueuePredicatesAsClaimed ==
    device.status # "none" =>
        \A i \in AllIndices(Candidates) :
            LET pd == Candidates[i + 1] IN
            (PassesFeatures(device_builder, pd) /\ PassesExtensions(device_builder, pd))
            => ((is_device_suitable(device_builder, pd) = "true")
                <=> /\ ~device_builder.needs_graphics \/ HasFamily(pd, GraphicsCapable)
                    /\ device_builder.surface = None \/ CanPresent(device_builder, pd))

\* C7 (amended): when no query of the check fails, such a candidate is
\* suitable exactly when (graphics is optional or some family is capable of
\* both graphics and compute) and (no surface or some family can present).
C7_QueuePredicates ==
    device.status # "none" =>
        \A i \in AllIndices(Candidates) :
            LET pd == Candidates[i + 1] IN
            (/\ PassesFeatures(device_builder, pd)
             /\ PassesExtensions(device_builder, pd)
             /\ is_device_suitable(device_builder, pd) # "err")
            => ((is_device_suitable(device_builder, pd) = "true")
                <=> /\ \/ ~device_builder.needs_graphics
                       \/ HasFamily(pd, GraphicsAndComputeCapable)
                    /\ device_builder.surface = None \/ CanPresent(device_builder, pd))

\* a candidate with a graphics-only family and no graphics+compute family was
\* checked with graphics mandatory and a surface it can present to
C7_Witness ==
    /\ device.status = "NoSuitableDevices"
    /\ device_builder.needs_graphics
    /\ device_builder.surface # None
    /\ Len(Candidates) = 1
    /\ HasFamily(Candidates[1], GraphicsCapable)
    /\ ~HasFamily(Candidates[1], GraphicsAndComputeCapable)
    /\ CanPresent(device_builder, Candidates[1])

\* the queue-family table of the device that build selected
SelectedFamilies == Candidates[device.physical_device[1] + 1].queue_families

\* the 0-based indices of the families that pass Test
FamiliesWith(queue_families, Test(_)) ==
    {i \in 0..(Len(queue_families) - 1) : Test(queue_families[i + 1])}

LowestOf(indices) == IF indices = {} THEN None ELSE Some(Min(indices))

\* the family index of a role of the built Device
RoleIndex(role) == IF role = None THEN None ELSE Some(role[1].index)

DedicatedCompute(qf) == "COMPUTE" \in qf.flags /\ "GRAPHICS" \notin qf.flags

DedicatedTransfer(qf) == qf.flags = {"TRANSFER"}

\* C14: graphics is the lowest index with both graphics and compute
\* (unassigned if none); compute is the lowest index with compute and without
\* graphics, else the graphics index; transfer is the lowest index with
\* transfer and neither graphics nor compute, and unassigned when there is
\* none even if other families are transfer-capable.
C14_QueueRoles ==
    device.status = "Ok" =>
        LET graphics == FamiliesWith(SelectedFamilies, GraphicsAndComputeCapable)
            compute == FamiliesWith(SelectedFamilies, DedicatedCompute)
            transfer == FamiliesWith(SelectedFamilies, DedicatedTransfer)
        IN /\ RoleIndex(device.graphics_queue) = LowestOf(graphics)
           /\ RoleIndex(device.compute_queue) =
                 IF compute # {} THEN Some(Min(compute)) ELSE LowestOf(graphics)
           /\ (device.compute_queue = None) => (device.graphics_queue = None)
           /\ RoleIndex(device.transfer_queue) = LowestOf(transfer)

\* the families are [compute+transfer, graphics+compute+transfer]: graphics
\* is 1, compute is 0, and transfer is unassigned although both families are
\* transfer-capable
C14_Witness ==
    /\ device.status = "Ok"
    /\ Len(SelectedFamilies) = 2
    /\ SelectedFamilies[1].flags = {"COMPUTE", "TRANSFER"}
    /\ SelectedFamilies[2].flags = QueueFlags
    /\ RoleIndex(device.graphics_queue) = Some(1)
    /\ RoleIndex(device.compute_queue) = Some(0)
    /\ device.transfer_queue = None

\* ================ present role and queue requests: SpecPresent ============
\* One candidate whose families differ in their flags and in the surface
\* they can present to; a present-support query can fail during the second
\* resolution in build, and device creation can fail.
PresentFamilies ==
    [flags : {QueueFlags, {"COMPUTE"}, {"TRANSFER"}},
     present : {{}, {"surfaceA"}, {"surfaceB"}}]

PresentDevices ==
    {PhysicalDevice("DISCRETE_GPU", NoFeatures, ExtensionNames, qfs) :
        qfs \in SeqsUpTo(PresentFamilies, MaxFamilies)}

PresentEnvs ==
    {[EnvOf(<<pd>>) EXCEPT !.build_present_query_fails = fails] :
        pd \in PresentDevices, fails \in QueueFailures}
    \cup
    {[EnvOf(<<pd>>) EXCEPT !.create_device_fails = TRUE] : pd \in PresentDevices}

NextPresent ==
    \/ graphics_optional
    \/ \E surf \in Surfaces : surface(surf)
    \/ \E env \in PresentEnvs : Build(env)

SpecPresent == Init /\ [][NextPresent]_vars

\* the families the driver describes as able to present to the surface
PresentCapable(queue_families, surf) ==
    {i \in 0..(Len(queue_families) - 1) : surf \in queue_families[i + 1].present}

\* C15: the present role of a built Device is unassigned when no surface was
\* supplied; with a surface it is the lowest family index that can present
\* to that surface, and never a family that cannot.
C15_PresentRole ==
    device.status = "Ok" =>
        IF device_builder.surface = None
        THEN device.present_queue = None
        ELSE /\ RoleIndex(device.present_queue) =
                   LowestOf(PresentCapable(SelectedFamilies,
                                           device_builder.surface[1]))
             /\ device.present_queue # None

\* the family indices of the assigned roles
AssignedFamilies ==
    {role[1].index : role \in {device.graphics_queue, device.compute_queue,
                               device.present_queue, device.transfer_queue}
                                  \ {None}}

\* C16: the queue-creation requests hold exactly one request, of one queue
\* with priority 1.0, for each distinct family index of an assigned role and
\* none for any other family; the queue 0 that each assigned role fetched
\* was created, and roles of one family share one request.
C16_QueueCreateInfos ==
    device.status = "Ok" =>
        LET infos == device.queue_create_infos IN
        /\ {infos[k].queue_family_index : k \in 1..Len(infos)} = AssignedFamilies
        /\ Len(infos) = Cardinality(AssignedFamilies)
        /\ \A k \in 1..Len(infos) : infos[k].queue_priorities = <<1>>
        /\ \A role \in {device.graphics_queue, device.compute_queue,
                         device.present_queue, device.transfer_queue} \ {None} :
              /\ role[1].queue.queue_family_index = role[1].index
              /\ role[1].queue.queue_index = 0
              /\ \E k \in 1..Len(infos) :
                    /\ infos[k].queue_family_index = role[1].index
                    /\ role[1].queue.queue_index < Len(infos[k].queue_priorities)

\* graphics, compute and present share family 0, transfer is family 1: two
\* requests for four roles
C16_Witness ==
    /\ device.status = "Ok"
    /\ RoleIndex(device.graphics_queue) = Some(0)
    /\ RoleIndex(device.compute_queue) = Some(0)
    /\ RoleIndex(device.present_queue) = Some(0)
    /\ RoleIndex(device.transfer_queue) = Some(1)
    /\ Len(device.queue_create_infos) = 2

\* a present-support query that build issued for the selected device failed:
\* the families are queried in order up to the first that can present
BuildPresentQueryFailed ==
    /\ device_builder.surface # None
    /\ \E i \in device_env.build_present_query_fails :
          /\ i < Len(SelectedFamilies)
          /\ \A j \in 0..(i - 1) :
                device_builder.surface[1] \notin SelectedFamilies[j + 1].present

\* a native call that DeviceBuilder::build issued reported an error
DeviceCallFailed ==
    \/ device_env.enumerate_fails
    \/ device_builder.optional_extensions # <<>> /\ device_env.build_ext_query_fails
    \/ device_env.create_device_fails
    \/ device.physical_device # None /\ BuildPresentQueryFailed

\* a native call that SwapchainBuilder::build issued reported an error
SwapchainCallFailed ==
    \/ swapchain_env.fails \in {"capabilities", "formats", "modes",
                                "create_swapchain", "get_swapchain_images"}
    \/ /\ swapchain_env.fails = "create_image_view"
       /\ swapchain_env.failed_view <= swapchain.create_info.min_image_count

\* C17: no build returns Ok after one of its native calls reported an error.
C17_ErrorsPropagate ==
    /\ device.status = "Ok" => ~DeviceCallFailed
    /\ swapchain.status = "Ok" => ~SwapchainCallFailed

\* ======================= device selection: SpecSelect =====================
\* PreferredDevice is public, but DeviceBuilder has no method that sets
\* preferred_device; select_physical_device is checked for every value of
\* that field, drawn in InitSelect.
Chosen(idx) == [kind |-> "Chosen", idx |-> idx]
Discrete == [kind |-> "Discrete", idx |-> 0]
Integrated == [kind |-> "Integrated", idx |-> 0]

Preferences ==
    {None, Some(Discrete), Some(Integrated)}
        \cup {Some(Chosen(idx)) : idx \in 0..MaxDevices}

AllFeatures == [f \in Features |-> 1]

TransferFamily == [flags |-> {"TRANSFER"}, present |-> {}]

\* Candidates of every type that pass every predicate or fail one of them
\* (features, extensions, queue families), and two whose queries fail.
SelectDevices ==
    UNION {{PhysicalDevice(t, AllFeatures, ExtensionNames, <<FullFamily>>),
            PhysicalDevice(t, NoFeatures, ExtensionNames, <<FullFamily>>),
            PhysicalDevice(t, AllFeatures, {}, <<FullFamily>>),
            PhysicalDevice(t, AllFeatures, ExtensionNames, <<TransferFamily>>)} :
           t \in DeviceTypes}
    \cup
    {[PhysicalDevice("DISCRETE_GPU", AllFeatures, ExtensionNames, <<FullFamily>>)
         EXCEPT !.ext_query_fails = TRUE],
     [PhysicalDevice("INTEGRATED_GPU", AllFeatures, ExtensionNames, <<FullFamily>>)
         EXCEPT !.present_query_fails = {0}]}

SelectEnvs ==
    {EnvOf(pds) : pds \in SeqsUpTo(SelectDevices, MaxDevices)}
        \cup {[NoEnv EXCEPT !.enumerate_fails = TRUE]}

InitSelect ==
    /\ \E preferred \in Preferences :
          device_builder = [NewDeviceBuilder EXCEPT !.preferred_device = preferred]
    /\ device_env = NoEnv
    /\ device = NotBuilt
    /\ InitSwapchain
    /\ InitInstance
    /\ InitLifetime

NextSelect ==
    \/ require_features(AllFeatures)
    \/ require_extension("VK_EXT_private_data")
    \/ surface("surfaceA")
    \/ graphics_optional
    \/ \E env \in SelectEnvs : Build(env)

SpecSelect == InitSelect /\ [][NextSelect]_vars

\* the four predicates of the specification, on what the hardware supports
SuitableBySpec(b, pd) ==
    /\ PassesFeatures(b, pd)
    /\ PassesExtensions(b, pd)
    /\ b.needs_graphics => HasFamily(pd, GraphicsCapable)
    /\ b.surface # None => CanPresent(b, pd)

SuitableIndices ==
    {i \in AllIndices(Candidates) : SuitableBySpec(device_builder, Candidates[i + 1])}

QueriesSucceed(env) ==
    /\ ~env.enumerate_fails
    /\ \A i \in 1..Len(env.physical_devices) :
          /\ ~env.physical_devices[i].ext_query_fails
          /\ env.physical_devices[i].present_query_fails = {}

Selected(idx) == [status |-> "Ok", physical_device |-> Some(idx)]

\* C3: with no preference and all queries succeeding, the selected device is
\* the lowest-index candidate that satisfies the suitability predicate.
C3_FirstSuitable ==
    (/\ device.status # "none"
     /\ device_builder.preferred_device = None
     /\ QueriesSucceed(device_env)
     /\ SuitableIndices # {})
    => device.selection = Selected(Min(SuitableIndices))

OfType(t) == {i \in AllIndices(Candidates) : Candidates[i + 1].device_type = t}

WantedType(preferred) ==
    IF preferred.kind = "Discrete" THEN "DISCRETE_GPU" ELSE "INTEGRATED_GPU"

\* C4: with a category preference the selected device is the first suitable
\* candidate of the requested type, and the first suitable candidate of any
\* type only when there is none.
C4_CategoryPreference ==
    (/\ device.status # "none"
     /\ device_builder.preferred_device # None
     /\ device_builder.preferred_device[1].kind \in {"Discrete", "Integrated"}
     /\ QueriesSucceed(device_env)
     /\ SuitableIndices # {})
    => LET wanted == SuitableIndices
                        \cap OfType(WantedType(device_builder.preferred_device[1]))
       IN device.selection =
              IF wanted # {} THEN Selected(Min(wanted))
              ELSE Selected(Min(SuitableIndices))

\* C5: Chosen(i) selects candidate i when it is in range and suitable, and
\* otherwise gives the result of the selection without a preference.
C5_ChosenPreference ==
    (/\ device.status # "none"
     /\ device_builder.preferred_device # None
     /\ device_builder.preferred_device[1].kind = "Chosen"
     /\ QueriesSucceed(device_env))
    => LET idx == device_builder.preferred_device[1].idx IN
       IF idx \in SuitableIndices
       THEN device.selection = Selected(idx)
       ELSE device.selection =
               select_physical_device(
                   [device_builder EXCEPT !.preferred_device = None], Candidates)

\* =================== required extensions: SpecExtensions ==================
\* Candidates that differ in their type, their supported extensions and in
\* whether enumerating those extensions fails.
ExtensionDevices ==
    {PhysicalDevice(t, NoFeatures, e, <<FullFamily>>) :
        t \in {"DISCRETE_GPU", "INTEGRATED_GPU"}, e \in SUBSET ExtensionNames}
    \cup
    {[PhysicalDevice(t, NoFeatures, e, <<FullFamily>>)
         EXCEPT !.ext_query_fails = TRUE] :
        t \in {"DISCRETE_GPU", "INTEGRATED_GPU"}, e \in {{}, ExtensionNames}}

ExtensionEnvs ==
    {EnvOf(pds) : pds \in SeqsUpTo(ExtensionDevices, MaxDevices)}
        \cup {[NoEnv EXCEPT !.enumerate_fails = TRUE]}

NextExtensions ==
    \/ \E name \in ExtensionNames : require_extension(name)
    \/ surface("surfaceA")
    \/ \E env \in ExtensionEnvs : Build(env)

SpecExtensions == InitSelect /\ [][NextExtensions]_vars

\* some required extension is supported by no candidate
RequiredExtensionAbsentEverywhere ==
    \E req \in Elems(device_builder.required_extensions) :
        \A i \in AllIndices(Candidates) : req \notin Candidates[i + 1].extensions

\* C6 as claimed: when a required extension is absent from every candidate,
\* build fails with NoSuitableDevices and creates no device.
C6_NoSuitableDevicesAsClaimed ==
    (device.status # "none" /\ RequiredExtensionAbsentEverywhere)
    => device.status = "NoSuitableDevices" /\ ~device.device_created

\* C6 (amended): when a required extension is absent from every candidate,
\* build fails and creates no device; it fails with NoSuitableDevices when the
\* device and extension enumerations succeed, and with the driver's error
\* when one of them fails.
C6_NoSuitableDevices ==
    (device.status # "none" /\ RequiredExtensionAbsentEverywhere)
    => /\ ~device.device_created
       /\ device.status \in {"NoSuitableDevices", "VulkanError"}
       /\ (/\ ~device_env.enumerate_fails
           /\ \A i \in AllIndices(Candidates) : ~Candidates[i + 1].ext_query_fails)
          => device.status = "NoSuitableDevices"

\* two candidates, one of the preferred type, each supporting one of the two
\* required extensions only
C6_Witness ==
    /\ device.status = "NoSuitableDevices"
    /\ device_builder.preferred_device = Some(Integrated)
    /\ Len(device_builder.required_extensions) = 2
    /\ Len(Candidates) = 2
    /\ Candidates[1].extensions = {SwapchainExt}
    /\ Candidates[2].extensions = {}
    /\ Candidates[1].device_type = "DISCRETE_GPU"
    /\ RequiredExtensionAbsentEverywhere

\* ===================== format negotiation: SpecFormats ====================
Formats ==
    {DEFAULT_PREFERRED_FORMATS[k] : k \in 1..Len(DEFAULT_PREFERRED_FORMATS)}
        \cup {[format |-> "B8G8R8A8_SRGB", color_space |-> "DISPLAY_P3_NONLINEAR_EXT"],
              [format |-> "R16G16B16A16_SFLOAT", color_space |-> "EXTENDED_SRGB_LINEAR_EXT"]}

FormatEnvs ==
    {[DefaultSwapchainEnv EXCEPT !.formats = supported] :
        supported \in SeqsUpTo(Formats, MaxSupported)}

NextFormats ==
    \/ \E format \in Formats : prefer_format(format)
    \/ \E env \in FormatEnvs : BuildSwapchain(env)

SpecFormats == Init /\ [][NextFormats]_vars

\* `chosen` is what the two-list scan must give: the first entry of `scan`
\* that occurs in `supported`, and supported[1] when none does
IsFirstMatch(chosen, scan, supported) ==
    /\ chosen \in Elems(supported)
    /\ \/ \E k \in 1..Len(scan) :
             /\ scan[k] = chosen
             /\ \A j \in 1..(k - 1) : scan[j] \notin Elems(supported)
       \/ /\ Elems(scan) \cap Elems(supported) = {}
          /\ chosen = supported[1]

\* C8: for a non-empty supported list, the chosen format is a supported
\* format: the first of (caller preferences, then the three defaults) that is
\* supported, and the first supported format when none is.
C8_PickFormat ==
    (swapchain.status = "Ok" /\ swapchain_env.formats # <<>>)
    => /\ IsFirstMatch(swapchain.format,
                       swapchain_builder.preferred_formats
                           \o <<SRGB("B8G8R8A8_SRGB"), SRGB("R8G8B8A8_SRGB"),
                                SRGB("A8B8G8R8_SRGB_PACK32")>>,
                       swapchain_env.formats)
       /\ swapchain.create_info.image_format = swapchain.format.format
       /\ swapchain.create_info.image_color_space = swapchain.format.color_space

\* a preference that is not supported, a supported default that is not the
\* first supported format
C8_Witness ==
    /\ swapchain.status = "Ok"
    /\ Len(swapchain_builder.preferred_formats) = 2
    /\ Elems(swapchain_builder.preferred_formats) \cap Elems(swapchain_env.formats) = {}
    /\ Len(swapchain_env.formats) = 2
    /\ swapchain.format = swapchain_env.formats[2]

\* ==================== present-mode negotiation: SpecModes =================
Modes ==
    {DEFAULT_PREFERRED_MODES[k] : k \in 1..Len(DEFAULT_PREFERRED_MODES)}
        \cup {"SHARED_DEMAND_REFRESH", "SHARED_CONTINUOUS_REFRESH"}

ModeEnvs ==
    {[DefaultSwapchainEnv EXCEPT !.modes = supported] :
        supported \in SeqsUpTo(Modes, MaxSupported)}

NextModes ==
    \/ \E mode \in Modes : prefer_mode(mode)
    \/ \E env \in ModeEnvs : BuildSwapchain(env)

SpecModes == Init /\ [][NextModes]_vars

\* C9: for a non-empty supported list, the chosen present mode is a supported
\* mode: the first of (caller preferences, then FIFO_RELAXED, FIFO, MAILBOX,
\* IMMEDIATE) that is supported, and the first supported mode when none is.
C9_PickMode ==
    (swapchain.status = "Ok" /\ swapchain_env.modes # <<>>)
    => /\ IsFirstMatch(swapchain.mode,
                       swapchain_builder.preferred_modes
                           \o <<"FIFO_RELAXED", "FIFO", "MAILBOX", "IMMEDIATE">>,
                       swapchain_env.modes)
       /\ swapchain.create_info.present_mode = swapchain.mode

\* no preference is supported and the default chosen is not the first
\* supported mode
C9_Witness ==
    /\ swapchain.status = "Ok"
    /\ Len(swapchain_builder.preferred_modes) = 2
    /\ Elems(swapchain_builder.preferred_modes) \cap Elems(swapchain_env.modes) = {}
    /\ swapchain_env.modes = <<"IMMEDIATE", "MAILBOX">>
    /\ swapchain.mode = "MAILBOX"

\* ====================== extent negotiation: SpecExtents ===================
Widths == {1, 800, 1280, 1920, 4096}
Heights == {1, 600, 720, 1080, 4096}

CurrentExtents == {UndefinedExtent, Extent2D(1280, 720), Extent2D(4096, 1)}

\* the driver reports min_image_extent <= max_image_extent
ExtentCapabilities ==
    {[DefaultCapabilities EXCEPT !.current_extent = current,
                                 !.min_image_extent = Extent2D(minw, minh),
                                 !.max_image_extent = Extent2D(maxw, maxh)] :
        current \in CurrentExtents,
        minw \in Widths, maxw \in Widths, minh \in Heights, maxh \in Heights}

ExtentEnvs ==
    {[DefaultSwapchainEnv EXCEPT !.capabilities = capabilities] :
        capabilities \in
            {c \in ExtentCapabilities :
                /\ ~Lt32(c.max_image_extent.width, c.min_image_extent.width)
                /\ ~Lt32(c.max_image_extent.height, c.min_image_extent.height)}}

NextExtents ==
    \/ \E width \in Widths, height \in Heights : extent(width, height)
    \/ \E env \in ExtentEnvs : BuildSwapchain(env)

SpecExtents == Init /\ [][NextExtents]_vars

\* v clamped into [min, max], for min <= max
IsClamped(chosen, v, min, max) ==
    /\ ~Lt32(chosen, min) /\ ~Lt32(max, chosen)
    /\ (~Lt32(v, min) /\ ~Lt32(max, v)) => chosen = v
    /\ Lt32(v, min) => chosen = min
    /\ Lt32(max, v) => chosen = max

\* C10: a defined current extent is chosen whatever extent was requested; with
\* the undefined sentinel the requested extent (800x600 when none) is clamped
\* component-wise into [min extent, max extent], so (1920,1080) under a
\* maximum of (1280,720) gives (1280,720).
C10_PickExtent ==
    swapchain.status = "Ok" =>
        LET capabilities == swapchain_env.capabilities
            requested == IF swapchain_builder.extent = None
                         THEN [width |-> <<0, 800>>, height |-> <<0, 600>>]
                         ELSE swapchain_builder.extent[1]
        IN /\ swapchain.create_info.image_extent = swapchain.extent
           /\ capabilities.current_extent # UndefinedExtent
                 => swapchain.extent = capabilities.current_extent
           /\ capabilities.current_extent = UndefinedExtent
                 => /\ IsClamped(swapchain.extent.width, requested.width,
                                 capabilities.min_image_extent.width,
                                 capabilities.max_image_extent.width)
                    /\ IsClamped(swapchain.extent.height, requested.height,
                                 capabilities.min_image_extent.height,
                                 capabilities.max_image_extent.height)
           /\ (/\ capabilities.current_extent = UndefinedExtent
               /\ requested = [width |-> <<0, 1920>>, height |-> <<0, 1080>>]
               /\ capabilities.max_image_extent
                     = [width |-> <<0, 1280>>, height |-> <<0, 720>>])
                 => swapchain.extent = [width |-> <<0, 1280>>, height |-> <<0, 720>>]

\* the scenario of the specification: (1920,1080) requested, current extent
\* undefined, maximum (1280,720)
C10_Witness ==
    /\ swapchain.status = "Ok"
    /\ swapchain_env.capabilities.current_extent = UndefinedExtent
    /\ swapchain_builder.extent = Some(Extent2D(1920, 1080))
    /\ swapchain_env.capabilities.min_image_extent = Extent2D(1, 1)
    /\ swapchain_env.capabilities.max_image_extent = Extent2D(1280, 720)
    /\ swapchain.extent = Extent2D(1280, 720)

\* =============== image count and sharing mode: SpecSwapchain ==============
ImageCounts == 0..MaxImageCount

\* The driver reports min_image_count >= 1 and either max_image_count = 0
\* (no upper limit) or min_image_count <= max_image_count.
ImageCountCapabilities ==
    {[DefaultCapabilities EXCEPT !.min_image_count = range[1],
                                 !.max_image_count = range[2]] :
        range \in {r \in (ImageCounts \ {0}) \X ImageCounts :
                      r[2] = 0 \/ r[1] <= r[2]}}

\* the queue roles of the Device handed to SwapchainBuilder::build
QueueRoles == {None} \cup {Some(qf) : qf \in 0..(MaxFamilies - 1)}

SwapchainDevices ==
    {[GoodDevice EXCEPT !.graphics_queue = WithQueue(graphics),
                        !.present_queue = WithQueue(present)] :
        graphics \in QueueRoles, present \in QueueRoles}

SwapchainEnvs ==
    {[DefaultSwapchainEnv EXCEPT !.capabilities = capabilities, !.device = dev] :
        capabilities \in ImageCountCapabilities, dev \in SwapchainDevices}

NextSwapchain ==
    \/ triple_buffered
    \/ \E env \in SwapchainEnvs : BuildSwapchain(env)

SpecSwapchain == Init /\ [][NextSwapchain]_vars

\* 3 when triple-buffered, otherwise 2
TargetImageCount == IF swapchain_builder.triple_buffered THEN 3 ELSE 2

\* C11: when min_image_count <= max_image_count, the image count requested
\* is the target (3 when triple-buffered, otherwise 2) clamped into
\* [min_image_count, max_image_count]; it lies in that range, and is min when
\* min = max whatever the flag is.
C11_ImageCountClamped ==
    LET min == swapchain_env.capabilities.min_image_count
        max == swapchain_env.capabilities.max_image_count
        count == swapchain.create_info.min_image_count
    IN (swapchain.status = "Ok" /\ min <= max)
       => /\ min <= count /\ count <= max
          /\ (min <= TargetImageCount /\ TargetImageCount <= max)
                => count = TargetImageCount
          /\ TargetImageCount < min => count = min
          /\ TargetImageCount > max => count = max
          /\ min = max => count = min

\* the scenario of the specification: min 1, max 8, triple-buffered, count 3
C11_Witness ==
    /\ swapchain.status = "Ok"
    /\ swapchain_builder.triple_buffered
    /\ swapchain_env.capabilities.min_image_count = 1
    /\ swapchain_env.capabilities.max_image_count = 8
    /\ swapchain.create_info.min_image_count = 3

\* C12: when max_image_count = 0 and min_image_count >= 1, the build
\* proceeds and requests max(target, min_image_count) images.
C12_UnboundedImageCount ==
    LET min == swapchain_env.capabilities.min_image_count
        max == swapchain_env.capabilities.max_image_count
    IN (/\ swapchain.status # "none"
        /\ max = 0 /\ min >= 1
        /\ swapchain_env.device.graphics_queue # None
        /\ swapchain_env.device.present_queue # None)
       => /\ swapchain.status = "Ok"
          /\ swapchain.create_info.min_image_count
                = IF TargetImageCount > min THEN TargetImageCount ELSE min

\* C13: the creation request uses exclusive sharing exactly when the
\* graphics and present family indices are equal, and otherwise concurrent
\* sharing over exactly those two indices, graphics first.
C13_SharingMode ==
    swapchain.status = "Ok" =>
        LET graphics == swapchain_env.device.graphics_queue[1].index
            present == swapchain_env.device.present_queue[1].index
            info == swapchain.create_info
        IN /\ info.image_sharing_mode \in {"EXCLUSIVE", "CONCURRENT"}
           /\ info.image_sharing_mode = "EXCLUSIVE" <=> graphics = present
           /\ info.image_sharing_mode = "CONCURRENT"
                 => info.queue_family_indices = <<graphics, present>>

\* C22: SwapchainBuilder::build ends with a Swapchain or an Error value and
\* never aborts, in particular for a Device whose graphics or present role
\* is unassigned and for an empty format or present-mode list.
C22_BuildNeverAborts ==
    /\ swapchain.status \in {"none", "Ok", "VulkanError"}
    /\ (/\ swapchain.status # "none"
        /\ \/ swapchain_env.device.graphics_queue = None
           \/ swapchain_env.device.present_queue = None
           \/ swapchain_env.formats = <<>>
           \/ swapchain_env.modes = <<>>)
       => swapchain.status = "VulkanError"

\* a swapchain built for a device whose graphics and present families differ
C13_Witness ==
    /\ swapchain.status = "Ok"
    /\ swapchain_env.device.graphics_queue[1].index = 0
    /\ swapchain_env.device.present_queue[1].index = 1
    /\ swapchain.create_info.image_sharing_mode = "CONCURRENT"
    /\ swapchain.create_info.queue_family_indices = <<0, 1>>

\* ==================== failures and rebuild: SpecRebuild ===================
Handles == 1..MaxSwapchains

\* the step of SwapchainBuilder::build whose native call reports an error
FailingCalls ==
    {"none", "capabilities", "formats", "modes", "create_swapchain",
     "get_swapchain_images", "create_image_view"}

\* The surface reports 2 to 8 images, so a build requests 2 or 3 image views;
\* the view whose creation fails is the first or the second.
RebuildEnvs ==
    {[DefaultSwapchainEnv EXCEPT !.fails = fails,
                                 !.failed_view = failed_view,
                                 !.new_swapchain = handle] :
        fails \in FailingCalls, failed_view \in {1, 2}, handle \in Handles}

NextRebuild ==
    \/ triple_buffered
    \/ \E previous \in Handles : previous_swapchain(previous)
    \/ \E env \in RebuildEnvs : BuildSwapchain(env)
    \/ \E env \in RebuildEnvs : Rebuild(env)

SpecRebuild == Init /\ [][NextRebuild]_vars

\* this step is a SwapchainBuilder::build, called directly or by rebuild,
\* that returned Err
BuildReturnedError ==
    \/ swapchain.status = "none" /\ swapchain'.status = "VulkanError"
    \/ swapchain.status = "Ok" /\ rebuilt'.status = "VulkanError"

\* C18: when a build returns an Error, every native object it created has
\* been destroyed: the live native objects after the failed build are those
\* that were live before it, and a failed device build leaves no device.
C18_NoLeakOnError ==
    [][/\ BuildReturnedError => native' = native
       /\ device'.status \notin {"none", "Ok"} => ~device'.device_created]_vars

\* this step is a Swapchain::rebuild that returned Ok
RebuildReturnedOk ==
    swapchain.status = "Ok" /\ swapchain' # swapchain /\ rebuilt'.status = "Ok"

ViewsOf(sc) == Elems(sc.image_views)

\* C19: a successful rebuild issues one swapchain creation whose reuse hint
\* is the handle that was live when it was called; afterwards the caller's
\* Swapchain holds the new handle, extent, format and image views, the
\* returned Swapchain holds the displaced handle and its image views, and
\* neither has been destroyed.
C19_RebuildReplaces ==
    [][RebuildReturnedOk =>
          /\ swapchain'.create_info.old_swapchain = swapchain.swapchain
          /\ native'.swapchains = native.swapchains \cup {swapchain'.swapchain}
          /\ swapchain'.swapchain = swapchain_env'.new_swapchain
          /\ swapchain'.swapchain \notin native.swapchains
          /\ swapchain'.extent = swapchain'.create_info.image_extent
          /\ swapchain'.format.format = swapchain'.create_info.image_format
          /\ ViewsOf(swapchain') # {}
          /\ \A view \in ViewsOf(swapchain') :
                view.swapchain = swapchain'.swapchain /\ view \notin native.image_views
          /\ rebuilt'.swapchain = swapchain
          /\ native.swapchains \subseteq native'.swapchains
          /\ native.image_views \subseteq native'.image_views
          /\ {swapchain.swapchain, swapchain'.swapchain} \subseteq native'.swapchains
          /\ ViewsOf(swapchain) \cup ViewsOf(swapchain') \subseteq native'.image_views
      ]_vars

\* this step is a Swapchain::rebuild that returned Err
RebuildReturnedError ==
    swapchain.status = "Ok" /\ rebuilt'.status = "VulkanError"

\* C23: when rebuild returns an Error the caller's Swapchain is unchanged:
\* same handle, extent, format and image views, all of them still live and
\* none destroyed; the builder keeps that handle as its reuse hint, and a
\* rebuild that follows a failed one passes it to the swapchain creation.
C23_FailedRebuildKeepsSwapchain ==
    [][/\ RebuildReturnedError =>
            /\ swapchain' = swapchain
            /\ swapchain'.swapchain = swapchain.swapchain
            /\ swapchain'.extent = swapchain.extent
            /\ swapchain'.format = swapchain.format
            /\ swapchain'.image_views = swapchain.image_views
            /\ swapchain.swapchain \in native'.swapchains
            /\ ViewsOf(swapchain) \subseteq native'.image_views
            /\ destroyed' = destroyed
            /\ swapchain_builder'.previous_swapchain = swapchain.swapchain
       /\ (rebuilt.status = "VulkanError" /\ RebuildReturnedOk) =>
            /\ swapchain'.create_info.old_swapchain = swapchain.swapchain
            /\ swapchain.swapchain \in native.swapchains
      ]_vars

\* after a rebuild that failed once its swapchain was created: the caller
\* still holds swapchain 1 and its views, all live, next to the leaked one
C23_Witness ==
    /\ rebuilt.status = "VulkanError"
    /\ swapchain.status = "Ok"
    /\ swapchain.swapchain = 1
    /\ native.swapchains = {1, 2}
    /\ swapchain_builder.previous_swapchain = 1
    /\ ViewsOf(swapchain) # {}
    /\ ViewsOf(swapchain) \subseteq native.image_views
    /\ destroyed = <<>>

\* after a successful rebuild over a builder that carried another hint: the
\* caller holds the new swapchain, created with the displaced handle as its
\* hint, and the displaced swapchain and its views are still live
C19_Witness ==
    /\ rebuilt.status = "Ok"
    /\ swapchain.status = "Ok"
    /\ rebuilt.swapchain.swapchain = 2
    /\ rebuilt.swapchain.create_info.old_swapchain = 3
    /\ swapchain.swapchain = 1
    /\ swapchain.create_info.old_swapchain = 2
    /\ native.swapchains = {1, 2}
    /\ ViewsOf(rebuilt.swapchain) \cup ViewsOf(swapchain) \subseteq native.image_views

\* ======================== extension lookup: SpecLookup ====================
\* One candidate device: what it supports, and whether enumerating its
\* extensions fails in build.
LookupDeviceEnvs ==
    {EnvOf(<<PhysicalDevice("DISCRETE_GPU", NoFeatures, e, <<FullFamily>>)>>) :
        e \in SUBSET ExtensionNames}
    \cup
    {[EnvOf(<<PhysicalDevice("DISCRETE_GPU", NoFeatures, ExtensionNames,
                             <<FullFamily>>)>>)
         EXCEPT !.build_ext_query_fails = TRUE]}

\* what the instance-level driver supports
InstanceSupported ==
    {{},
     {SurfaceExt},
     {DebugUtilsExt},
     {SurfaceExt, XcbSurfaceExt},
     {SurfaceExt, XcbSurfaceExt, DebugUtilsExt},
     {SurfaceExt, Win32SurfaceExt},
     {SurfaceExt, Win32SurfaceExt, DebugUtilsExt},
     {SurfaceExt, XlibSurfaceExt, WaylandSurfaceExt, XcbSurfaceExt, DebugUtilsExt}}

InstanceEnvs ==
    [target_os : {"windows", "linux"},
     extensions : InstanceSupported,
     fails : {"none", "load", "enumerate", "create_instance"}]

NextLookup ==
    \/ require_extension("VK_EXT_private_data")
    \/ \E name \in ExtensionNames : optional_extension(name)
    \/ \E env \in LookupDeviceEnvs : Build(env)
    \/ headless
    \/ use_default_debug_messenger
    \/ InstanceBuilder_require_extension(XcbSurfaceExt)
    \/ InstanceBuilder_optional_extension(XcbSurfaceExt)
    \/ \E env \in InstanceEnvs : BuildInstance(env)

SpecLookup == Init /\ [][NextLookup]_vars

\* what the driver reported for the selected device
SelectedExtensions == Candidates[device.physical_device[1] + 1].extensions

\* C20: after a successful instance or device build, the lookup of a kind
\* returns a loaded object exactly when the kind was requested as required,
\* or requested as optional and reported supported by the driver.
C20_ExtensionLookup ==
    /\ device.status = "Ok" =>
          \A name \in ExtensionNames :
              (Device_extension(device, name) # None)
              <=> \/ name \in Elems(device_builder.required_extensions)
                  \/ /\ name \in Elems(device_builder.optional_extensions)
                     /\ name \in SelectedExtensions
    /\ instance.status = "Ok" =>
          \A name \in InstanceExtensionNames :
              (Instance_extension(instance, name) # None)
              <=> \/ name \in Elems(instance.builder.required_extensions)
                  \/ /\ name \in Elems(instance.builder.optional_extensions)
                     /\ name \in instance_env.extensions

\* a device built with one optional extension supported and one not, and a
\* Linux instance whose driver has the XCB but not the Xlib surface extension
C20_Witness ==
    /\ device.status = "Ok"
    /\ device_builder.required_extensions = <<>>
    /\ Len(device_builder.optional_extensions) = 2
    /\ SelectedExtensions = {SwapchainExt}
    /\ Device_extension(device, SwapchainExt) # None
    /\ Device_extension(device, "VK_EXT_private_data") = None
    /\ instance.status = "Ok"
    /\ instance_env.target_os = "linux"
    /\ ~instance_builder.is_headless
    /\ Instance_extension(instance, SurfaceExt) # None
    /\ Instance_extension(instance, XcbSurfaceExt) # None
    /\ Instance_extension(instance, XlibSurfaceExt) = None
    /\ Instance_extension(instance, DebugUtilsExt) = None

\* each name of the list occurs once
NoDuplicates(names) == Cardinality(Elems(names)) = Len(names)

\* C26: whatever the order of the require_extension and optional_extension
\* calls, no name is in both the required and the optional list of a
\* builder, and the extension name list passed to create_instance or
\* create_device holds each name at most once.
C26_NoDuplicateExtensions ==
    /\ Elems(device_builder.required_extensions)
           \cap Elems(device_builder.optional_extensions) = {}
    /\ Elems(instance_builder.required_extensions)
           \cap Elems(instance_builder.optional_extensions) = {}
    /\ device.device_created => NoDuplicates(device.requested_extensions)
    /\ instance.instance_created => NoDuplicates(instance.requested_extensions)

\* ======================= optional requests: SpecOptional ==================
\* Candidates that differ in their features and supported extensions; every
\* driver query succeeds.
OptionalDevices ==
    {PhysicalDevice("DISCRETE_GPU", a, e, <<FullFamily>>) :
        a \in {NoFeatures, AllFeatures},
        e \in {{}, {SwapchainExt}, ExtensionNames}}

OptionalEnvs == {EnvOf(pds) : pds \in SeqsUpTo(OptionalDevices, MaxDevices)}

NextOptional ==
    \/ require_features(AllFeatures)
    \/ \E features \in {NoFeatures, AllFeatures} : optional_features(features)
    \/ require_extension("VK_EXT_private_data")
    \/ \E name \in ExtensionNames : optional_extension(name)
    \/ \E env \in OptionalEnvs : Build(env)

SpecOptional == Init /\ [][NextOptional]_vars

\* the optional parts a builder can carry
OptionalFeatureChoices == {None} \cup {Some(features) : features \in FeatureSets}

OptionalExtensionChoices ==
    {names \in SeqsUpTo(ExtensionNames, Cardinality(ExtensionNames)) :
        Cardinality(Elems(names)) = Len(names)}

\* C21: when all driver queries succeed, a build that differs only in its
\* optional feature set and optional extension list selects the same
\* candidate or fails with NoSuitableDevices alike, and an optional
\* extension the selected device does not support is left out of the
\* enabled extension list instead of failing the build.
C21_OptionalNeverRejects ==
    (device.status # "none" /\ QueriesSucceed(device_env)
        /\ ~device_env.build_ext_query_fails
        /\ device_env.build_present_query_fails = {}
        /\ ~device_env.create_device_fails)
    => /\ device.status \in {"Ok", "NoSuitableDevices"}
       /\ \A features \in OptionalFeatureChoices, names \in OptionalExtensionChoices :
             LET other == build([device_builder EXCEPT
                                    !.optional_features = features,
                                    !.optional_extensions = names],
                                device_env)
             IN /\ other.status = device.status
                /\ other.selection = device.selection
                /\ other.status = "Ok" =>
                      \A name \in Elems(names) :
                          name \notin Candidates[other.physical_device[1] + 1].extensions
                          => (name \in Elems(other.requested_extensions)
                                <=> name \in Elems(device_builder.required_extensions))
       /\ device.status = "Ok" =>
             \A name \in Elems(device_builder.optional_extensions) :
                 name \notin Candidates[device.physical_device[1] + 1].extensions
                 => name \notin Elems(device.requested_extensions)
                       \ Elems(device_builder.required_extensions)

\* a build with optional features and two optional extensions succeeded,
\* out of two candidates, on one that has none of the features and supports
\* one of the extensions only
C21_Witness ==
    /\ device.status = "Ok"
    /\ Len(Candidates) = 2
    /\ device.physical_device = Some(0)
    /\ device_builder.optional_features = Some(AllFeatures)
    /\ Len(device_builder.optional_extensions) = 2
    /\ device_builder.required_extensions = <<>>
    /\ Candidates[1].extensions = {SwapchainExt}
    /\ Candidates[1].features = NoFeatures
    /\ device.requested_extensions = <<SwapchainExt>>

\* ==================== ownership and drops: SpecLifetime =================
\* the Device that Build returned, as SwapchainBuilder::build reads it
\* through its Arc: device.instance() is the Instance it was built from
DeviceOf(dev, inst) ==
    [instance_extensions |-> inst.loaded_extensions,
     loaded_extensions |-> dev.loaded_extensions,
     graphics_queue |-> dev.graphics_queue,
     present_queue |-> dev.present_queue]

\* the caller still holds the Arc it passes to the next builder
InstanceHeld == instance.status = "Ok" /\ "instance" \notin released

DeviceHeld == device.status = "Ok" /\ "device" \notin released

LifetimeInstanceEnvs ==
    {[target_os |-> "linux",
      extensions |-> {SurfaceExt, XcbSurfaceExt},
      fails |-> fails] : fails \in {"none", "create_instance"}}

LifetimeDeviceEnvs ==
    {[EnvOf(<<PhysicalDevice("DISCRETE_GPU", NoFeatures, {SwapchainExt},
                             <<FullFamily>>)>>)
         EXCEPT !.create_device_fails = fails] : fails \in BOOLEAN}

\* a surface reporting min_image_count images, on the device that was built
LifetimeSwapchainEnvs ==
    {[DefaultSwapchainEnv EXCEPT !.device = DeviceOf(device, instance),
                                 !.fails = fails,
                                 !.new_swapchain = handle] :
        fails \in {"none", "create_image_view"}, handle \in Handles}

NextLifetime ==
    \/ \E env \in LifetimeInstanceEnvs : BuildInstance(env)
    \/ surface("surfaceA")
    \/ InstanceHeld /\ \E env \in LifetimeDeviceEnvs : Build(env)
    \/ DeviceHeld /\ \E env \in LifetimeSwapchainEnvs : BuildSwapchain(env)
    \/ \E env \in LifetimeSwapchainEnvs : Rebuild(env)
    \/ \E sc \in swapchains : DropSwapchain(sc)
    \/ DropDevice
    \/ DropInstance

SpecLifetime == Init /\ [][NextLifetime]_vars

\* the position of a destroy call in the log, 0 when it was not made
DestroyedAt(call) ==
    IF \E k \in 1..Len(destroyed) : destroyed[k] = call
    THEN CHOOSE k \in 1..Len(destroyed) : destroyed[k] = call
    ELSE 0

\* C24: the device is destroyed only after every Swapchain built on it,
\* displaced ones included, has destroyed its image views and its swapchain,
\* and the instance only after the Device built from it was destroyed.
C24_DestructionOrdered ==
    \A k \in 1..Len(destroyed) :
        /\ destroyed[k].kind = "device" =>
              /\ "device" \in released
              /\ \A sc \in swapchains :
                    /\ sc.dropped
                    /\ DestroyedAt(Destroy("swapchain", sc.swapchain, 0)) \in 1..(k - 1)
                    /\ \A view \in Elems(sc.image_views) :
                          DestroyedAt(Destroy("image_view", view.swapchain, view.image))
                              \in 1..(k - 1)
        /\ destroyed[k].kind = "instance" =>
              /\ "instance" \in released
              /\ device.status = "Ok" =>
                    DestroyedAt(Destroy("device", 0, 0)) \in 1..(k - 1)

\* the caller dropped its instance and device references first and its two
\* Swapchains, one of them displaced by a rebuild, afterwards: the drop of
\* the last Swapchain destroyed the swapchain, the device and the instance
C24_Witness ==
    /\ Cardinality(swapchains) = 2
    /\ rebuilt.status = "Ok"
    /\ released = {"instance", "device"}
    /\ Len(destroyed) >= 8
    /\ destroyed[Len(destroyed)].kind = "instance"
    /\ destroyed[Len(destroyed) - 1].kind = "device"
    /\ destroyed[Len(destroyed) - 2].kind = "swapchain"
    /\ destroyed[1].kind = "image_view"

\* C25: every swapchain and image view of a successful build is destroyed
\* exactly once, when the Swapchain value that owns it is dropped, the views
\* before the swapchain; nothing is destroyed twice, and nothing is
\* destroyed while a Swapchain that was not dropped holds it.
C25_DestroyedOnceOnDrop ==
    /\ \A j, k \in 1..Len(destroyed) : destroyed[j] = destroyed[k] => j = k
    /\ \A sc \in swapchains :
          LET handle_at == DestroyedAt(Destroy("swapchain", sc.swapchain, 0))
              view_at(view) ==
                  DestroyedAt(Destroy("image_view", view.swapchain, view.image))
          IN IF sc.dropped
             THEN /\ handle_at > 0
                  /\ sc.swapchain \notin native.swapchains
                  /\ \A view \in Elems(sc.image_views) :
                        /\ view_at(view) \in 1..(handle_at - 1)
                        /\ view \notin native.image_views
                  /\ \A j, k \in 1..Len(sc.image_views) :
                        j < k => view_at(sc.image_views[j]) < view_at(sc.image_views[k])
             ELSE /\ handle_at = 0
                  /\ sc.swapchain \in native.swapchains
                  /\ \A view \in Elems(sc.image_views) :
                        view_at(view) = 0 /\ view \in native.image_views
    /\ \A k \in 1..Len(destroyed) :
          destroyed[k].kind \in {"swapchain", "image_view"} =>
              \E sc \in swapchains :
                  sc.dropped /\ sc.swapchain = destroyed[k].swapchain

\* the Swapchain displaced by a rebuild was dropped and its two views and
\* its swapchain were destroyed in that order, while the caller's current
\* Swapchain and its views are live
C25_Witness ==
    /\ rebuilt.status = "Ok"
    /\ swapchain.status = "Ok"
    /\ destroyed = <<Destroy("image_view", rebuilt.swapchain.swapchain, 1),
                     Destroy("image_view", rebuilt.swapchain.swapchain, 2),
                     Destroy("swapchain", rebuilt.swapchain.swapchain, 0)>>
    /\ swapchain.swapchain \in native.swapchains
    /\ rebuilt.swapchain.swapchain \notin native.swapchains
    /\ \E sc \in swapchains : ~sc.dropped /\ sc.swapchain = swapchain.swapchain

====
